---- MODULE Spec2Model ----
(***************************************************************************)
(* pyee EventEmitter (src/pyee/base.py) as a state machine.                *)
(*                                                                         *)
(* The emitter's state is its registry _events (event name -> OrderedDict  *)
(* of listener key -> invocable) and its non-reentrant lock _lock.  Every  *)
(* thread that uses the emitter has a call stack of frames; a frame is one *)
(* activation of on/once (through _add_event_handler), emit (through      *)
(* _call_handlers), remove_listener, remove_all_listeners, a once wrapper  *)
(* g, or the body of a listener.  One action is one step of one thread:    *)
(* entering a call, taking the lock, the locked block of a method, the     *)
(* invocation of the next snapshotted function, a return.                  *)
(*                                                                         *)
(* Listener bodies are user code: a body may call the emitter again        *)
(* (bounded by MaxNest and MaxCalls), return, or fail.                     *)
(*                                                                         *)
(* The decorators of src/pyee/cls.py have their own state (the module's    *)
(* accumulator _handlers, the init wrappers of the decorated classes, the  *)
(* instances) and their own specification, SpecCls.                        *)
(***************************************************************************)
EXTENDS Naturals, Sequences, FiniteSets, TLC

VARIABLES
    _events,    \* self._events: event name -> sequence of [k, v] (OrderedDict)
    _lock,      \* self._lock: "free" or the thread that holds it
    stack,      \* per thread: its call stack, a sequence of frames
    calls,      \* number of emitter calls made so far by user code
    run,        \* the user code of this run: its threads, the events and
                \* listeners it uses, the number of calls it makes
    regOrder,   \* history: per event, the listeners in order of registration
    onLive,     \* history: <<event, f>> registered by on and not removed since
    life,       \* history: per listener, its registrations and executions
    fired,      \* history: <<event, f>> that a once wrapper has removed and
                \* called, and that nothing has registered again since
    _handlers,  \* pyee.cls._handlers: the Handler objects that cls.on has
                \* appended and no evented call has taken yet
    inits,      \* per class, the handlers lists that the init wrappers of
                \* its evented calls close over, innermost wrapper first
    objects,    \* the instances constructed so far, in order
    hist        \* history: the number of Handler objects created, of
                \* evented calls made, the Handler objects created since the
                \* last evented call, and those each class was decorated with

emitterVars == <<_events, _lock, stack, calls, run, regOrder, onLive, life, fired>>
clsVars == <<_handlers, inits, objects, hist>>
vars == <<emitterVars, clsVars>>

---------------------------------------------------------------------------
(* Bounds of the model *)

\* Emitter calls that user code (threads and listener bodies) makes in a run
\* of two threads, and in a run of one thread.
MaxCalls == 3
SeqCalls == 4
\* Depth of re-entrance: listener bodies below which a body may still call.
MaxNest == 1
\* Emitter calls in a run that is checked for progress.
LiveCalls == 3
\* Handlers declared with cls.on, evented calls, and instances constructed.
MaxDecl == 2
MaxEvented == 2
MaxObjects == 2

---------------------------------------------------------------------------
(* Values *)

Threads == {"t1", "t2"}
Events == {"x", "error", "new_listener"}
Listeners == {"f", "h", "k"}
None == "None"
\* Values that are instances of Exception, and one that is not.
Exceptions == {"ValueError"}
Payloads == {<<>>, <<"ValueError">>, <<"msg">>}

\* Classes of user code that cls.on and evented are used on: the __init__
\* of the classes in OwnInit sets self.event_emitter itself. Their methods,
\* and the events the methods are declared for.
Classes == {"A", "B"}
OwnInit == {"B"}
Methods == {"A.m", "B.m"}
ClsEvents == {"x", "y"}

\* The invocable stored for a listener: the listener itself (on), or the
\* closure g that once creates over (event, f).
Plain(f) == [kind |-> "listener", event |-> None, f |-> f]
Wrapper(event, f) == [kind |-> "g", event |-> event, f |-> f]

EmptyRegistry == [e \in {} |-> <<>>]

---------------------------------------------------------------------------
(* OrderedDict and registry operations *)

Keys(od) == [j \in 1..Len(od) |-> od[j].k]
Values(od) == [j \in 1..Len(od) |-> od[j].v]
KeySet(od) == {od[j].k : j \in 1..Len(od)}

\* Variants of od[k] = v that a list of pairs, or a delete-then-insert,
\* would give: a second entry for a present k; the entry moved to the end.
OdAppend(od, k, v) == od \o <<[k |-> k, v |-> v]>>
OdMoveToEnd(od, k, v) ==
    SelectSeq(od, LAMBDA en : en.k # k) \o <<[k |-> k, v |-> v]>>
\* od[k] = v: overwrite in place when k is present, else append.
OdSet(od, k, v) ==
    IF k \in KeySet(od)
    THEN [j \in 1..Len(od) |-> IF od[j].k = k THEN [k |-> k, v |-> v] ELSE od[j]]
    ELSE od \o <<[k |-> k, v |-> v]>>

\* od.pop(k) for a present k.
OdPop(od, k) == SelectSeq(od, LAMBDA en : en.k # k)

\* self._events.get(event, OrderedDict())
Get(ev, event) == IF event \in DOMAIN ev THEN ev[event] ELSE <<>>

Registered(ev, event, f) == event \in DOMAIN ev /\ f \in KeySet(ev[event])

\* Variant of the insertion that does not create the collection of an event
\* seen for the first time.
InsertNoCreate(ev, event, k, v) ==
    IF event \in DOMAIN ev THEN [ev EXCEPT ![event] = OdSet(@, k, v)] ELSE ev
\* The locked block of _add_event_handler.
Insert(ev, event, k, v) ==
    LET ev1 == IF event \in DOMAIN ev THEN ev ELSE (event :> <<>>) @@ ev
    IN  [ev1 EXCEPT ![event] = OdSet(@, k, v)]

\* Variants of _remove_listener: one that leaves the emptied collection
\* in the registry, one that removes nothing.
RemoveKeepEmpty(ev, event, f) == [ev EXCEPT ![event] = OdPop(@, f)]
RemoveNothing(ev, event, f) == ev
\* _remove_listener for a registered f: pop, and delete the emptied event.
_remove_listener(ev, event, f) ==
    LET ev1 == [ev EXCEPT ![event] = OdPop(@, f)]
    IN  IF Len(ev1[event]) = 0
        THEN [e \in DOMAIN ev1 \ {event} |-> ev1[e]]
        ELSE ev1

\* The locked block of remove_all_listeners.
ClearAll(ev, event) ==
    IF event # None THEN (event :> <<>>) @@ ev ELSE EmptyRegistry

listeners(event) == Keys(Get(_events, event))
event_names == DOMAIN _events

\* Variant of the error policy that ignores the payload.
ErrorAlwaysPyeeError(event, error) ==
    IF event = "error" THEN "PyeeError" ELSE None
\* _emit_handle_potential_error: the exception it raises, or None.
_emit_handle_potential_error(event, error) ==
    IF event = "error"
    THEN IF error \in Exceptions THEN error ELSE "PyeeError"
    ELSE None

---------------------------------------------------------------------------
(* Frames *)

\* A frame: op and pc say which code runs and where it is; event, f, args
\* are its arguments; funcs, i, handled are the locals of _call_handlers;
\* out and val, set when pc = "done", are how it ends: "return" with a value
\* or "raise" with an exception.  History fields: log, the listener bodies
\* this emit has started, with their arguments; pre, the listeners that a
\* completed on registered for the emit's event and that nothing has removed
\* up to the snapshot nor since; order, the registration order at the
\* snapshot; dup, whether another registration of (event, f) was or became
\* effective during this on/once; had, whether the key was present when
\* this on/once inserted; fired, the listeners of the emit's event that a
\* once wrapper had removed and called, and nothing registered again, when
\* the snapshot was taken.
Frame(op, pc, event, f, args) ==
    [op |-> op, pc |-> pc, event |-> event, f |-> f, args |-> args,
     funcs |-> <<>>, i |-> 0, handled |-> FALSE,
     out |-> "", val |-> None,
     log |-> <<>>, pre |-> {}, order |-> <<>>, dup |-> FALSE, had |-> FALSE,
     fired |-> {}]

Depth(t) == Len(stack[t])
Top(t) == stack[t][Depth(t)]
Busy(t) == Depth(t) > 0
At(t, op, pc) == Busy(t) /\ Top(t).op = op /\ Top(t).pc = pc

SetTop(s, fr) == [s EXCEPT ![Len(s)] = fr]
Push(s, fr) == Append(s, fr)
Pop(s) == SubSeq(s, 1, Len(s) - 1)

Done(fr, out, val) == [fr EXCEPT !.pc = "done", !.out = out, !.val = val]

BodiesBelow(t) == Cardinality({j \in 1..Depth(t) : stack[t][j].op = "body"})

\* User code may call the emitter: a thread outside any call, or a running
\* listener body.
CanCall(t) ==
    /\ t \in run.threads
    /\ calls < run.calls
    /\ \/ ~Busy(t)
       \/ At(t, "body", "run") /\ BodiesBelow(t) <= MaxNest

\* The caller's stack with fr (and more) pushed on it.
Enter(t, frs) ==
    IF Busy(t)
    THEN SetTop(stack[t], [Top(t) EXCEPT !.pc = "wait"]) \o frs
    ELSE frs

---------------------------------------------------------------------------
(* History updates (they record what happened; no action reads them) *)

\* A removal of the listeners fs of event (None: of every event) ends "no
\* removal in between" for the emits in flight, except the emit at
\* (keepT, keepJ), whose own once wrapper does the removal.
ForgetPre(st, event, fs, keepT, keepJ) ==
    [u \in Threads |->
        [j \in 1..Len(st[u]) |->
            IF /\ st[u][j].op = "emit"
               /\ (event = None \/ st[u][j].event = event)
               /\ ~(u = keepT /\ j = keepJ)
            THEN [st[u][j] EXCEPT !.pre = @ \ fs]
            ELSE st[u][j]]]

\* An insertion of (event, k) by the frame (t, Depth(t)) is seen by every
\* other registration of (event, k) still ahead of its own insertion.
NoteInsert(st, t, event, k) ==
    [u \in Threads |->
        [j \in 1..Len(st[u]) |->
            IF /\ st[u][j].op \in {"on", "once"}
               /\ st[u][j].pc # "done"
               /\ st[u][j].event = event /\ st[u][j].f = k
               /\ ~(u = t /\ j = Len(st[u]))
            THEN [st[u][j] EXCEPT !.dup = TRUE]
            ELSE st[u][j]]]

OrderAdd(ro, event, k) ==
    IF k \in {ro[event][j] : j \in 1..Len(ro[event])}
    THEN ro
    ELSE [ro EXCEPT ![event] = Append(@, k)]
OrderDrop(ro, event, fs) ==
    [e \in Events |->
        IF event = None \/ e = event
        THEN SelectSeq(ro[e], LAMBDA k : k \notin fs)
        ELSE ro[e]]
LiveDrop(ol, event, fs) ==
    {p \in ol : ~((event = None \/ p[1] = event) /\ p[2] \in fs)}

\* life[f]: "fresh" never registered; "once" registered one time, by once,
\* and neither run nor removed by remove_listener/remove_all_listeners;
\* "ran" the same, run one time; "again" run a second time; "other" any
\* other history.
LifeInsert(lf, op, k) ==
    [lf EXCEPT ![k] = IF @ = "fresh" /\ op = "once" THEN "once" ELSE "other"]
LifeRun(lf, k) ==
    [lf EXCEPT ![k] = CASE @ = "once" -> "ran"
                        [] @ = "ran" -> "again"
                        [] OTHER -> @]
LifeDrop(lf, fs) == [k \in Listeners |-> IF k \in fs THEN "other" ELSE lf[k]]

---------------------------------------------------------------------------
Start ==
    /\ _events = EmptyRegistry
    /\ _lock = "free"
    /\ stack = [t \in Threads |-> <<>>]
    /\ calls = 0
    /\ regOrder = [e \in Events |-> <<>>]
    /\ onLive = {}
    /\ life = [k \in Listeners |-> "fresh"]
    /\ fired = {}
    /\ _handlers = <<>>
    /\ inits = [c \in Classes |-> <<>>]
    /\ objects = <<>>
    /\ hist = [n |-> 0, evented |-> 0, since |-> <<>>,
               captured |-> [c \in Classes |-> <<>>]]

\* Two threads share the emitter.
Init ==
    /\ Start
    /\ run = [threads |-> Threads, events |-> Events,
               listeners |-> {"f", "h"}, calls |-> MaxCalls]

\* One thread uses the emitter, with three listeners and two events.
InitSeq ==
    /\ Start
    /\ run = [threads |-> {"t1"}, events |-> {"x", "error"},
               listeners |-> Listeners, calls |-> SeqCalls]

\* Two threads share the emitter and use one event and one listener (and
\* new_listener, which every registration emits).
InitLive ==
    /\ Start
    /\ run = [threads |-> Threads, events |-> {"x", "new_listener"},
               listeners |-> {"f"}, calls |-> LiveCalls]

---------------------------------------------------------------------------
(* Calls made by user code: a thread, or the body of a listener *)

WithStack(t, s) == [stack EXCEPT ![t] = s]

\* Variant of the registration that inserts before it emits new_listener.
RegisterEager(t, op, event, k) ==
    /\ CanCall(t)
    /\ stack' = WithStack(t, Enter(t,
           << [Frame(op, "wait", event, k, <<>>)
                   EXCEPT !.dup = Registered(_events, event, k)],
              Frame("emit", "lock", "new_listener", None, <<event, k>>) >>))
    /\ calls' = calls + 1
    /\ _events' = Insert(_events, event, k,
                     IF op = "on" THEN Plain(k) ELSE Wrapper(event, k))
    /\ UNCHANGED <<_lock, run, clsVars, regOrder, onLive, life, fired>>

\* on(event, f) / add_listener(event, f) / listens_to(event)(f), and
\* once(event, f), up to the emit("new_listener", event, f) that
\* _add_event_handler starts with.
Register(t, op, event, k) ==
    /\ CanCall(t)
    /\ stack' = WithStack(t, Enter(t,
           << [Frame(op, "wait", event, k, <<>>)
                   EXCEPT !.dup = Registered(_events, event, k)],
              Frame("emit", "lock", "new_listener", None, <<event, k>>) >>))
    /\ calls' = calls + 1
    /\ UNCHANGED <<_events, _lock, run, clsVars, regOrder, onLive, life, fired>>

on(t) == \E event \in run.events, k \in run.listeners : Register(t, "on", event, k)

once(t) == \E event \in run.events, k \in run.listeners : Register(t, "once", event, k)

emit(t) ==
    \E event \in run.events, args \in Payloads :
        /\ CanCall(t)
        /\ stack' = WithStack(t, Enter(t,
               << Frame("emit", "lock", event, None, args) >>))
        /\ calls' = calls + 1
        /\ UNCHANGED <<_events, _lock, run, clsVars, regOrder, onLive, life, fired>>

remove_listener(t) ==
    \E event \in run.events, k \in run.listeners :
        /\ CanCall(t)
        /\ stack' = WithStack(t, Enter(t,
               << Frame("remove_listener", "lock", event, k, <<>>) >>))
        /\ calls' = calls + 1
        /\ UNCHANGED <<_events, _lock, run, clsVars, regOrder, onLive, life, fired>>

\* A remove_all_listeners that clears the registry without taking the lock.
remove_all_listeners_unlocked(t) ==
    \E event \in run.events \cup {None} :
        /\ CanCall(t)
        /\ stack' = WithStack(t, Enter(t,
               << Frame("remove_all_listeners", "crit", event, None, <<>>) >>))
        /\ calls' = calls + 1
        /\ UNCHANGED <<_events, _lock, run, clsVars, regOrder, onLive, life, fired>>

remove_all_listeners(t) ==
    \E event \in run.events \cup {None} :
        /\ CanCall(t)
        /\ stack' = WithStack(t, Enter(t,
               << Frame("remove_all_listeners", "lock", event, None, <<>>) >>))
        /\ calls' = calls + 1
        /\ UNCHANGED <<_events, _lock, run, clsVars, regOrder, onLive, life, fired>>

---------------------------------------------------------------------------
(* Steps of the emitter's methods *)

\* "with self._lock:" entered: blocks while another frame holds the lock.
Acquire(t) ==
    /\ Busy(t) /\ Top(t).pc = "lock"
    /\ _lock = "free"
    /\ _lock' = t
    /\ stack' = WithStack(t, SetTop(stack[t], [Top(t) EXCEPT !.pc = "crit"]))
    /\ UNCHANGED <<_events, calls, run, clsVars, regOrder, onLive, life, fired>>

\* _add_event_handler after the new_listener emit: the locked insertion,
\* and the return of f to the caller of on/once.
_add_event_handler(t) ==
    /\ Busy(t) /\ Top(t).op \in {"on", "once"} /\ Top(t).pc = "crit"
    /\ LET fr == Top(t)
           v  == IF fr.op = "on" THEN Plain(fr.f) ELSE Wrapper(fr.event, fr.f)
           s1 == SetTop(stack[t],
                    [Done(fr, "return", fr.f)
                        EXCEPT !.had = Registered(_events, fr.event, fr.f)])
       IN  /\ _events' = Insert(_events, fr.event, fr.f, v)
           /\ stack' = NoteInsert(WithStack(t, s1), t, fr.event, fr.f)
           /\ regOrder' = OrderAdd(regOrder, fr.event, fr.f)
           /\ onLive' = IF fr.op = "on"
                        THEN onLive \cup {<<fr.event, fr.f>>}
                        ELSE onLive
           /\ life' = LifeInsert(life, fr.op, fr.f)
           /\ fired' = fired \ {<<fr.event, fr.f>>}
    /\ _lock' = "free"
    /\ UNCHANGED <<calls, run, clsVars>>

\* _call_handlers: handled = False and the locked snapshot of the values.
Snapshot(ev, event) == Values(Get(ev, event))
_call_handlers_snapshot(t) ==
    /\ At(t, "emit", "crit")
    /\ stack' = WithStack(t, SetTop(stack[t],
           [Top(t) EXCEPT !.pc = "loop",
                          !.funcs = Snapshot(_events, Top(t).event),
                          !.handled = FALSE,
                          !.pre = {k \in Listeners :
                                      <<Top(t).event, k>> \in onLive},
                          !.order = regOrder[Top(t).event],
                          !.fired = {k \in Listeners :
                                        <<Top(t).event, k>> \in fired}]))
    /\ _lock' = "free"
    /\ UNCHANGED <<_events, calls, run, clsVars, regOrder, onLive, life, fired>>

\* A dispatch that looks a listener up again before calling it and skips
\* the one that has been removed since the snapshot.
_emit_run_registered(t) ==
    /\ At(t, "emit", "loop")
    /\ Top(t).i < Len(Top(t).funcs)
    /\ LET fr == Top(t)
           v  == fr.funcs[fr.i + 1]
       IN  IF v.kind = "listener" /\ ~Registered(_events, fr.event, v.f)
           THEN /\ stack' = WithStack(t, SetTop(stack[t],
                        [fr EXCEPT !.handled = TRUE, !.i = @ + 1]))
                /\ life' = life
           ELSE IF v.kind = "listener"
           THEN /\ stack' = WithStack(t, Push(
                        SetTop(stack[t],
                            [fr EXCEPT !.pc = "wait",
                                       !.log = Append(@, <<v.f, fr.args>>)]),
                        Frame("body", "run", None, v.f, fr.args)))
                /\ life' = LifeRun(life, v.f)
           ELSE /\ stack' = WithStack(t, Push(
                        SetTop(stack[t], [fr EXCEPT !.pc = "wait"]),
                        Frame("g", "lock", v.event, v.f, fr.args)))
                /\ life' = life
    /\ UNCHANGED <<_events, _lock, calls, run, clsVars, regOrder, onLive, fired>>

\* A dispatch that walks the registry itself instead of a snapshot of it.
_emit_run_live(t) ==
    /\ At(t, "emit", "loop")
    /\ Top(t).i < Len(Snapshot(_events, Top(t).event))
    /\ LET fr == Top(t)
           v  == Snapshot(_events, fr.event)[fr.i + 1]
       IN  IF v.kind = "listener"
           THEN /\ stack' = WithStack(t, Push(
                        SetTop(stack[t],
                            [fr EXCEPT !.pc = "wait",
                                       !.log = Append(@, <<v.f, fr.args>>)]),
                        Frame("body", "run", None, v.f, fr.args)))
                /\ life' = LifeRun(life, v.f)
           ELSE /\ stack' = WithStack(t, Push(
                        SetTop(stack[t], [fr EXCEPT !.pc = "wait"]),
                        Frame("g", "lock", v.event, v.f, fr.args)))
                /\ life' = life
    /\ UNCHANGED <<_events, _lock, calls, run, clsVars, regOrder, onLive, fired>>

\* _call_handlers: the loop calls the next function of the snapshot through
\* _emit_run: the listener itself, or a once wrapper g.
_emit_run(t) ==
    /\ At(t, "emit", "loop")
    /\ Top(t).i < Len(Top(t).funcs)
    /\ LET fr == Top(t)
           v  == fr.funcs[fr.i + 1]
       IN  IF v.kind = "listener"
           THEN /\ stack' = WithStack(t, Push(
                        SetTop(stack[t],
                            [fr EXCEPT !.pc = "wait",
                                       !.log = Append(@, <<v.f, fr.args>>)]),
                        Frame("body", "run", None, v.f, fr.args)))
                /\ life' = LifeRun(life, v.f)
           ELSE /\ stack' = WithStack(t, Push(
                        SetTop(stack[t], [fr EXCEPT !.pc = "wait"]),
                        Frame("g", "lock", v.event, v.f, fr.args)))
                /\ life' = life
    /\ UNCHANGED <<_events, _lock, calls, run, clsVars, regOrder, onLive, fired>>

\* emit after _call_handlers has returned: the error policy and the result.
EmitResult(fr) ==
    LET err == _emit_handle_potential_error(fr.event,
                   IF Len(fr.args) > 0 THEN fr.args[1] ELSE None)
    IN  IF fr.handled THEN Done(fr, "return", "True")
        ELSE IF err # None THEN Done(fr, "raise", err)
        ELSE Done(fr, "return", "False")
emit_return(t) ==
    /\ At(t, "emit", "loop")
    /\ Top(t).i = Len(Top(t).funcs)
    /\ stack' = WithStack(t, SetTop(stack[t], EmitResult(Top(t))))
    /\ UNCHANGED <<_events, _lock, calls, run, clsVars, regOrder, onLive, life, fired>>

\* The once wrapper g: under the lock, remove f if it is still registered
\* and then, the lock released, call f; else return None.
GRemoves(ev, event, f) == Registered(ev, event, f)
\* A once wrapper that calls f inside its locked block.
g_calls_inside(t) ==
    /\ At(t, "g", "crit")
    /\ LET fr == Top(t)
           j  == Depth(t) - 1
       IN  IF GRemoves(_events, fr.event, fr.f)
           THEN /\ _events' = _remove_listener(_events, fr.event, fr.f)
                /\ stack' = ForgetPre(
                       WithStack(t, Push(
                           [stack[t] EXCEPT
                               ![j].log = Append(@, <<fr.f, fr.args>>),
                               ![j + 1].pc = "wait"],
                           Frame("body", "run", None, fr.f, fr.args))),
                       fr.event, {fr.f}, t, j)
                /\ regOrder' = OrderDrop(regOrder, fr.event, {fr.f})
                /\ onLive' = LiveDrop(onLive, fr.event, {fr.f})
                /\ life' = LifeRun(life, fr.f)
                /\ fired' = fired \cup {<<fr.event, fr.f>>}
                /\ _lock' = _lock
           ELSE /\ stack' = WithStack(t, SetTop(stack[t],
                       Done(fr, "return", None)))
                /\ _lock' = "free"
                /\ UNCHANGED <<_events, regOrder, onLive, life, fired>>
    /\ UNCHANGED <<calls, run, clsVars>>

g(t) ==
    /\ At(t, "g", "crit")
    /\ LET fr == Top(t)
           j  == Depth(t) - 1
       IN  IF GRemoves(_events, fr.event, fr.f)
           THEN /\ _events' = _remove_listener(_events, fr.event, fr.f)
                /\ stack' = ForgetPre(
                       WithStack(t, Push(
                           [stack[t] EXCEPT
                               ![j].log = Append(@, <<fr.f, fr.args>>),
                               ![j + 1].pc = "wait"],
                           Frame("body", "run", None, fr.f, fr.args))),
                       fr.event, {fr.f}, t, j)
                /\ regOrder' = OrderDrop(regOrder, fr.event, {fr.f})
                /\ onLive' = LiveDrop(onLive, fr.event, {fr.f})
                /\ life' = LifeRun(life, fr.f)
                /\ fired' = fired \cup {<<fr.event, fr.f>>}
           ELSE /\ stack' = WithStack(t, SetTop(stack[t],
                       Done(fr, "return", None)))
                /\ UNCHANGED <<_events, regOrder, onLive, life, fired>>
    /\ _lock' = "free"
    /\ UNCHANGED <<calls, run, clsVars>>

\* A removal that releases the lock only when it succeeds.
remove_listener_no_release(t) ==
    /\ At(t, "remove_listener", "crit")
    /\ LET fr == Top(t)
       IN  IF Registered(_events, fr.event, fr.f)
           THEN /\ _events' = _remove_listener(_events, fr.event, fr.f)
                /\ stack' = ForgetPre(
                       WithStack(t, SetTop(stack[t], Done(fr, "return", None))),
                       fr.event, {fr.f}, t, 0)
                /\ regOrder' = OrderDrop(regOrder, fr.event, {fr.f})
                /\ onLive' = LiveDrop(onLive, fr.event, {fr.f})
                /\ life' = LifeDrop(life, {fr.f})
                /\ fired' = fired
                /\ _lock' = "free"
           ELSE /\ stack' = WithStack(t, SetTop(stack[t],
                       Done(fr, "raise", "KeyError")))
                /\ UNCHANGED <<_events, _lock, regOrder, onLive, life, fired>>
    /\ UNCHANGED <<calls, run, clsVars>>

\* remove_listener: the locked _remove_listener; a KeyError when the event
\* or the listener is not in the registry.
remove_listener_locked(t) ==
    /\ At(t, "remove_listener", "crit")
    /\ LET fr == Top(t)
       IN  IF Registered(_events, fr.event, fr.f)
           THEN /\ _events' = _remove_listener(_events, fr.event, fr.f)
                /\ stack' = ForgetPre(
                       WithStack(t, SetTop(stack[t], Done(fr, "return", None))),
                       fr.event, {fr.f}, t, 0)
                /\ regOrder' = OrderDrop(regOrder, fr.event, {fr.f})
                /\ onLive' = LiveDrop(onLive, fr.event, {fr.f})
                /\ life' = LifeDrop(life, {fr.f})
                /\ fired' = fired
           ELSE /\ stack' = WithStack(t, SetTop(stack[t],
                       Done(fr, "raise", "KeyError")))
                /\ UNCHANGED <<_events, regOrder, onLive, life, fired>>
    /\ _lock' = "free"
    /\ UNCHANGED <<calls, run, clsVars>>

\* remove_all_listeners: the locked clearing of one event or of all.
remove_all_listeners_locked(t) ==
    /\ At(t, "remove_all_listeners", "crit")
    /\ LET fr == Top(t)
           gone == IF fr.event = None
                   THEN UNION {KeySet(_events[e]) : e \in DOMAIN _events}
                   ELSE KeySet(Get(_events, fr.event))
       IN  /\ _events' = ClearAll(_events, fr.event)
           /\ stack' = ForgetPre(
                  WithStack(t, SetTop(stack[t], Done(fr, "return", None))),
                  fr.event, Listeners, t, 0)
           /\ regOrder' = OrderDrop(regOrder, fr.event, Listeners)
           /\ onLive' = LiveDrop(onLive, fr.event, Listeners)
           /\ life' = LifeDrop(life, gone)
           /\ fired' = fired
    /\ _lock' = "free"
    /\ UNCHANGED <<calls, run, clsVars>>

---------------------------------------------------------------------------
(* Listener bodies and returns *)

\* The body of a listener ends normally.
body_return(t) ==
    /\ At(t, "body", "run")
    /\ stack' = WithStack(t, SetTop(stack[t], Done(Top(t), "return", None)))
    /\ UNCHANGED <<_events, _lock, calls, run, clsVars, regOrder, onLive, life, fired>>

\* The body of a listener fails.
body_raise(t) ==
    /\ At(t, "body", "run")
    /\ stack' = WithStack(t, SetTop(stack[t],
           Done(Top(t), "raise", "ListenerError")))
    /\ UNCHANGED <<_events, _lock, calls, run, clsVars, regOrder, onLive, life, fired>>

\* Variant of the loop of _call_handlers that counts a function as handling
\* the event only when it returns a value.
ResumeUnhandled(parent, child) ==
    CASE parent.op = "emit" ->
            [parent EXCEPT !.pc = "loop", !.handled = @ \/ child.val # None,
                           !.i = @ + 1]
      [] parent.op = "g" -> Done(parent, "return", child.val)
      [] parent.op \in {"on", "once"} -> [parent EXCEPT !.pc = "lock"]
      [] OTHER -> [parent EXCEPT !.pc = "run"]

\* What a caller does when the call it waits for returns.
Resume(parent, child) ==
    CASE parent.op = "emit" ->
            [parent EXCEPT !.pc = "loop", !.handled = TRUE, !.i = @ + 1]
      [] parent.op = "g" -> Done(parent, "return", child.val)
      [] parent.op \in {"on", "once"} -> [parent EXCEPT !.pc = "lock"]
      [] OTHER -> [parent EXCEPT !.pc = "run"]

\* A return in which emit catches what a listener raises and goes on with
\* the next function of its snapshot.
ReturnSwallow(t) ==
    /\ Busy(t) /\ Top(t).pc = "done"
    /\ LET child == Top(t)
           rest  == Pop(stack[t])
       IN  stack' = WithStack(t,
               IF rest = <<>> THEN rest
               ELSE IF child.out = "raise" /\ rest[Len(rest)].op # "emit"
                    THEN SetTop(rest, Done(rest[Len(rest)], "raise", child.val))
                    ELSE SetTop(rest, Resume(rest[Len(rest)], child)))
    /\ UNCHANGED <<_events, _lock, calls, run, clsVars, regOrder, onLive, life, fired>>

\* A finished frame leaves the stack: its caller goes on, or, no method of
\* the emitter catching anything, fails with the same exception.
Return(t) ==
    /\ Busy(t) /\ Top(t).pc = "done"
    /\ LET child == Top(t)
           rest  == Pop(stack[t])
       IN  stack' = WithStack(t,
               IF rest = <<>> THEN rest
               ELSE IF child.out = "raise"
                    THEN SetTop(rest, Done(rest[Len(rest)], "raise", child.val))
                    ELSE SetTop(rest, Resume(rest[Len(rest)], child)))
    /\ UNCHANGED <<_events, _lock, calls, run, clsVars, regOrder, onLive, life, fired>>

---------------------------------------------------------------------------
Next ==
    \E t \in Threads :
        \/ on(t)
        \/ once(t)
        \/ emit(t)
        \/ remove_listener(t)
        \/ remove_all_listeners(t)
        \/ Acquire(t)
        \/ _add_event_handler(t)
        \/ _call_handlers_snapshot(t)
        \/ _emit_run(t)
        \/ emit_return(t)
        \/ g(t)
        \/ remove_listener_locked(t)
        \/ remove_all_listeners_locked(t)
        \/ body_return(t)
        \/ body_raise(t)
        \/ Return(t)

Spec == Init /\ [][Next]_vars
SpecSeq == InitSeq /\ [][Next]_vars

\* The steps a thread takes by itself once user code has made a call: the
\* methods of the emitter go on, and a listener body ends.
Internal(t) ==
    \/ Acquire(t)
    \/ _add_event_handler(t)
    \/ _call_handlers_snapshot(t)
    \/ _emit_run(t)
    \/ emit_return(t)
    \/ g(t)
    \/ remove_listener_locked(t)
    \/ remove_all_listeners_locked(t)
    \/ body_return(t)
    \/ body_raise(t)
    \/ Return(t)

\* Threads are scheduled fairly and listener bodies terminate.
SpecLive == InitLive /\ [][Next]_vars /\ \A t \in Threads : WF_vars(Internal(t))

TypeOK ==
    /\ _lock \in Threads \cup {"free"}
    /\ calls \in 0..run.calls
    /\ \A t \in Threads : \A j \in 1..Depth(t) :
          stack[t][j].op \in {"on", "once", "emit", "remove_listener",
                              "remove_all_listeners", "g", "body"}
---------------------------------------------------------------------------
(* pyee.cls: the decorators on and evented, and the construction of an     *)
(* instance of a decorated class                                           *)

\* Handler(event, method) makes a new object each time; n is its identity.
Handler(event, method, n) == [event |-> event, method |-> method, n |-> n]

\* _bind(self, method): a new closure over the instance for each handler
\* and each construction; calling it calls method(self, ...).
_bind(self, h) == [self |-> self, method |-> h.method, n |-> h.n]

\* User code declares handlers, decorates classes and constructs instances;
\* no thread uses the shared emitter.
InitCls ==
    /\ Start
    /\ run = [threads |-> {}, events |-> {}, listeners |-> {}, calls |-> 0]

\* cls.on(event)(method): appends a Handler to the module's _handlers and
\* returns the method as it is.
cls_on ==
    \E event \in ClsEvents, method \in Methods :
        /\ hist.n < MaxDecl
        /\ _handlers' = Append(_handlers, Handler(event, method, hist.n + 1))
        /\ hist' = [hist EXCEPT
               !.n = @ + 1,
               !.since = Append(@, Handler(event, method, hist.n + 1))]
        /\ UNCHANGED <<emitterVars, inits, objects>>

\* An evented that copies the accumulator and does not reset it.
evented_no_reset(c) ==
    /\ hist.evented < MaxEvented
    /\ inits' = [inits EXCEPT ![c] = Append(@, _handlers)]
    /\ _handlers' = _handlers
    /\ hist' = [hist EXCEPT !.evented = @ + 1,
                            !.since = <<>>,
                            !.captured[c] = @ \o hist.since]
    /\ UNCHANGED <<emitterVars, objects>>

\* evented(cls): handlers = list(_handlers), _handlers.reset(), and
\* cls.__init__ becomes the wrapper init around the former cls.__init__.
evented(c) ==
    /\ hist.evented < MaxEvented
    /\ inits' = [inits EXCEPT ![c] = Append(@, _handlers)]
    /\ _handlers' = <<>>
    /\ hist' = [hist EXCEPT !.evented = @ + 1,
                            !.since = <<>>,
                            !.captured[c] = @ \o hist.since]
    /\ UNCHANGED <<emitterVars, objects>>

\* The loop of the wrapper init: self.event_emitter.on(h.event,
\* _bind(self, h.method)) for each h of handlers; on inserts the closure as
\* key and as invocable.
RECURSIVE RegisterAll(_, _, _)
RegisterAll(ev, self, handlers) ==
    IF handlers = <<>> THEN ev
    ELSE LET bound == _bind(self, Head(handlers))
         IN  RegisterAll(Insert(ev, Head(handlers).event, bound, Plain(bound)),
                         self, Tail(handlers))

\* The wrapper init after og_init has run: an EventEmitter is created when
\* self has no event_emitter, then the handlers are registered.
InitWrapper(em, self, handlers) ==
    [by |-> IF em.by = "none" THEN "init" ELSE em.by,
     _events |-> RegisterAll(em._events, self, handlers)]

\* The wrappers of a class decorated more than once call each other through
\* og_init, the innermost first.
RECURSIVE RunInits(_, _, _)
RunInits(em, self, ws) ==
    IF ws = <<>> THEN em
    ELSE RunInits(InitWrapper(em, self, Head(ws)), self, Tail(ws))

\* cls(): the class's own __init__ (which sets event_emitter for the
\* classes of OwnInit), then the wrappers.
init(c) ==
    /\ Len(objects) < MaxObjects
    /\ LET self == Len(objects) + 1
           og   == [by |-> IF c \in OwnInit THEN "og_init" ELSE "none",
                    _events |-> EmptyRegistry]
       IN  objects' = Append(objects,
               [cls |-> c,
                event_emitter |-> RunInits(og, self, inits[c]),
                wrapped |-> inits[c] # <<>>,
                declared |-> hist.captured[c]])
    /\ UNCHANGED <<emitterVars, _handlers, inits, hist>>

NextCls ==
    \/ cls_on
    \/ \E c \in Classes : evented(c)
    \/ \E c \in Classes : init(c)

SpecCls == InitCls /\ [][NextCls]_vars

---------------------------------------------------------------------------
(* Notions the properties use *)

\* Every frame of every stack, and the emit frames among them.
AllFrames == UNION {{stack[t][j] : j \in 1..Depth(t)} : t \in Threads}
Emits == {fr \in AllFrames : fr.op = "emit"}
Returned(fr) == fr.pc = "done" /\ fr.out = "return"
Raised(fr) == fr.pc = "done" /\ fr.out = "raise"

\* The positions of log at which the body of f was started.
RunsOf(log, f) == {j \in 1..Len(log) : log[j][1] = f}
NoDuplicates(seq) == \A a, b \in 1..Len(seq) : seq[a] = seq[b] => a = b

---------------------------------------------------------------------------
(* C1: after on(event, f) and no removal of f up to and during an          *)
(* emit(event, *a), that emit starts the body of f at most once, only with *)
(* the arguments a, and when it returns it has started it exactly once and *)
(* returns True.                                                           *)
C1_OnThenEmit ==
    \A fr \in Emits : \A f \in fr.pre :
        /\ Cardinality(RunsOf(fr.log, f)) <= 1
        /\ \A j \in RunsOf(fr.log, f) : fr.log[j][2] = fr.args
        /\ Returned(fr) =>
              /\ Cardinality(RunsOf(fr.log, f)) = 1
              /\ fr.val = "True"

\* An emit("x", "msg") has returned True after running f, which on had
\* registered.
C1_Witness ==
    \E fr \in Emits :
        /\ Returned(fr) /\ fr.event = "x" /\ fr.args = <<"msg">>
        /\ "f" \in fr.pre /\ fr.log = << <<"f", <<"msg">> >> >>
        /\ fr.val = "True"

---------------------------------------------------------------------------
(* C2: an emit whose event has no registered listener (its snapshot is     *)
(* empty) returns False and raises nothing, unless the event is "error":   *)
(* then it raises its first argument when that is an exception, and a      *)
(* PyeeError when it is not or when there is no argument.                  *)
C2_Unheard ==
    \A fr \in Emits :
        (fr.pc = "done" /\ fr.funcs = <<>>) =>
            IF fr.event = "error"
            THEN /\ fr.out = "raise"
                 /\ fr.val = IF Len(fr.args) > 0 /\ fr.args[1] \in Exceptions
                             THEN fr.args[1]
                             ELSE "PyeeError"
            ELSE fr.out = "return" /\ fr.val = "False"

\* emit("error") without arguments and without listeners has raised a
\* PyeeError.
C2_Witness ==
    \E fr \in Emits :
        /\ Raised(fr) /\ fr.event = "error" /\ fr.args = <<>>
        /\ fr.funcs = <<>> /\ fr.val = "PyeeError"

---------------------------------------------------------------------------
(* C3: every emit("error", ...) that has ended has run the body of a       *)
(* listener or has raised.                                                 *)
C3_ErrorNeverDropped ==
    \A fr \in Emits :
        (fr.pc = "done" /\ fr.event = "error") =>
            (fr.out = "raise" \/ fr.log # <<>>)

---------------------------------------------------------------------------
(* C4, as claimed: an emit returns True if and only if it has run the body *)
(* of at least one listener.                                               *)
C4_TrueIffBodyRan ==
    \A fr \in Emits : Returned(fr) => (fr.val = "True" <=> fr.log # <<>>)

(* C4, amended: an emit returns True if and only if its snapshot was not   *)
(* empty, that is, it has called at least one registered invocable (a      *)
(* listener, or a once wrapper, which may return without running its       *)
(* listener); it returns False otherwise, and then has run no body.        *)
C4_TrueIffSnapshotNonEmpty ==
    \A fr \in Emits :
        Returned(fr) =>
            /\ fr.val \in {"True", "False"}
            /\ fr.val = "True" <=> fr.funcs # <<>>
            /\ fr.val = "False" => fr.log = <<>>

\* An emit has returned True although the only function it called, a once
\* wrapper, ran no listener body.
C4_Witness ==
    \E fr \in Emits :
        /\ Returned(fr) /\ fr.val = "True"
        /\ Len(fr.funcs) = 1 /\ fr.funcs[1].kind = "g" /\ fr.log = <<>>

---------------------------------------------------------------------------
(* C5: a listener registered one time, with once, and not removed by       *)
(* remove_listener or remove_all_listeners, is run at most once in total;  *)
(* and once an emit that had its wrapper in the snapshot has returned, it  *)
(* has been run exactly once, by that emit or by one racing with it.       *)
C5_OnceRunsOnce ==
    /\ \A f \in Listeners : life[f] # "again"
    /\ \A fr \in Emits : \A f \in Listeners :
          (/\ Returned(fr)
           /\ \E j \in 1..Len(fr.funcs) : fr.funcs[j] = Wrapper(fr.event, f)
           /\ life[f] \in {"once", "ran"})
          => life[f] = "ran"

\* Two threads have raced emit("x") on the once listener f; both emits have
\* returned, one has run f and the other has not.
C5_Witness ==
    /\ life["f"] = "ran"
    /\ At("t1", "emit", "done") /\ At("t2", "emit", "done")
    /\ Depth("t1") = 1 /\ Depth("t2") = 1
    /\ \A t \in Threads :
          /\ Returned(Top(t)) /\ Top(t).event = "x"
          /\ Top(t).funcs = <<Wrapper("x", "f")>>
    /\ Len(Top("t1").log) + Len(Top("t2").log) = 1

---------------------------------------------------------------------------
(* C6: a listener never has two entries under one event, in the registry   *)
(* or in a snapshot, also after a second on(event, f); no emit runs a      *)
(* listener twice, and an emit that returns has run each listener that on  *)
(* registered (and nothing removed) exactly once.                          *)
C6_NoDuplicateEntry ==
    /\ \A e \in DOMAIN _events : NoDuplicates(Keys(_events[e]))
    /\ \A fr \in Emits :
          /\ NoDuplicates([j \in 1..Len(fr.funcs) |-> fr.funcs[j].f])
          /\ \A f \in Listeners : Cardinality(RunsOf(fr.log, f)) <= 1
          /\ Returned(fr) =>
                \A f \in fr.pre : Cardinality(RunsOf(fr.log, f)) = 1

\* A second on("x", f) has inserted: f was already an on listener of "x"
\* and listeners("x") holds it once.
C6_Witness ==
    \E fr \in AllFrames :
        /\ fr.op = "on" /\ Returned(fr) /\ fr.had /\ fr.event = "x"
        /\ listeners("x") = <<fr.f>>
        /\ \A j \in 1..Len(_events["x"]) : _events["x"][j].v.kind = "listener"

---------------------------------------------------------------------------
(* C7: every event name in the registry maps to a non-empty collection.    *)
C7_NoEmptyCollection ==
    \A e \in DOMAIN _events : Len(_events[e]) > 0

---------------------------------------------------------------------------
(* C8: the step of remove_listener(event, f) that finds f registered       *)
(* removes that one entry: what every event holds afterwards is what it    *)
(* held before, in the same order and with the same invocables, without    *)
(* the entry of f under event; the names of the other events are kept;     *)
(* and event is dropped from event_names() when f was its last listener.   *)
C8_RemoveStep(t) ==
    LET fr == Top(t)
    IN  (/\ At(t, "remove_listener", "crit")
         /\ Registered(_events, fr.event, fr.f)
         /\ stack'[t][Depth(t)].pc = "done")
        =>
        /\ \A e \in Events :
              Get(_events', e) =
                  IF e = fr.event
                  THEN SelectSeq(_events[e], LAMBDA en : en.k # fr.f)
                  ELSE Get(_events, e)
        /\ \A e \in Events \ {fr.event} :
              e \in DOMAIN _events' <=> e \in DOMAIN _events
        /\ fr.event \in DOMAIN _events' <=> Keys(_events[fr.event]) # <<fr.f>>
        /\ stack'[t][Depth(t)].out = "return"
C8_RemoveExactlyOne == [][\A t \in Threads : C8_RemoveStep(t)]_vars

\* remove_listener has removed one of three listeners of an event: the two
\* others are still registered.
C8_Witness ==
    \E t \in Threads :
        /\ At(t, "remove_listener", "done") /\ Returned(Top(t))
        /\ Depth(t) = 1
        /\ Len(listeners(Top(t).event)) = 2
        /\ Top(t).f \notin KeySet(Get(_events, Top(t).event))

---------------------------------------------------------------------------
(* C9: the listeners of an event are held in the order of their            *)
(* registration: removals keep the order of the others and registering a   *)
(* registered listener again keeps its place; the snapshot of an emit has  *)
(* that order, and the emit runs the listeners in the order of its         *)
(* snapshot.                                                               *)
PositionIn(funcs, f) == CHOOSE j \in 1..Len(funcs) : funcs[j].f = f
C9_RegistrationOrder ==
    /\ \A e \in Events : listeners(e) = regOrder[e]
    /\ \A fr \in Emits :
          /\ [j \in 1..Len(fr.funcs) |-> fr.funcs[j].f] = fr.order
          /\ \A a, b \in 1..Len(fr.log) :
                a < b => /\ PositionIn(fr.funcs, fr.log[a][1])
                             < PositionIn(fr.funcs, fr.log[b][1])
                         /\ PositionIn(fr.funcs, fr.log[b][1]) <= fr.i + 1

\* on(event, f) for the first of three registered listeners has returned:
\* f is still the first.
C9_Witness ==
    \E fr \in AllFrames :
        /\ fr.op = "on" /\ Returned(fr) /\ fr.had
        /\ Len(listeners(fr.event)) = 3
        /\ listeners(fr.event)[1] = fr.f

---------------------------------------------------------------------------
(* C10 *)

\* The frames of on/once in thread t that have not inserted yet: each waits
\* for its emit of new_listener or for the lock.
Registering(t) ==
    {j \in 1..Depth(t) : /\ stack[t][j].op \in {"on", "once"}
                         /\ stack[t][j].pc # "done"}
\* A handler of the new_listener emit of frame j of thread t is running.
HandlerRuns(t, j) ==
    /\ Depth(t) >= j + 2
    /\ stack[t][j].pc = "wait"
    /\ stack[t][j + 2].op \in {"body", "g"}

(* C10, as claimed: while a new_listener handler runs for on/once(event,   *)
(* f), f is not in listeners(event).                                       *)
C10_NeverSeenActive ==
    \A t \in Threads : \A j \in Registering(t) :
        HandlerRuns(t, j) =>
            stack[t][j].f \notin KeySet(Get(_events, stack[t][j].event))

(* C10, amended: every on/once(event, f) emits new_listener with (event,   *)
(* f) before it inserts f; until it inserts, unless another registration   *)
(* of f under event was effective when the call began or inserted since,   *)
(* f is not in listeners(event), and no emit(event) made by a handler has  *)
(* f in its snapshot or runs it.                                           *)
C10_NotifiedBeforeInsert ==
    \A t \in Threads : \A j \in Registering(t) :
        LET fr == stack[t][j]
        IN  /\ fr.pc = "wait" =>
                  /\ Depth(t) > j
                  /\ stack[t][j + 1].op = "emit"
                  /\ stack[t][j + 1].event = "new_listener"
                  /\ stack[t][j + 1].args = <<fr.event, fr.f>>
            /\ ~fr.dup =>
                  /\ fr.f \notin KeySet(Get(_events, fr.event))
                  /\ \A m \in (j + 2)..Depth(t) :
                        (stack[t][m].op = "emit"
                            /\ stack[t][m].event = fr.event) =>
                            /\ \A n \in 1..Len(stack[t][m].funcs) :
                                  stack[t][m].funcs[n].f # fr.f
                            /\ RunsOf(stack[t][m].log, fr.f) = {}

\* The new_listener handler h, notified of on("x", f), has called emit("x"),
\* which has returned False: f is not registered yet.
C10_Witness ==
    \E t \in Threads :
        /\ Depth(t) = 4
        /\ stack[t][1].op = "on" /\ stack[t][1].event = "x"
        /\ stack[t][1].f = "f" /\ ~stack[t][1].dup
        /\ stack[t][3].op = "body" /\ stack[t][3].f = "h"
        /\ stack[t][4].op = "emit" /\ stack[t][4].event = "x"
        /\ Returned(stack[t][4]) /\ stack[t][4].val = "False"
        /\ listeners("x") = <<>>

---------------------------------------------------------------------------
(* C11: remove_listener(event, f) for an f that is not registered under    *)
(* event (the event unknown, or known without f) ends in a KeyError or     *)
(* does nothing; the registry is then exactly as before the call and the   *)
(* lock is free again.                                                     *)
C11_Step(t) ==
    (/\ At(t, "remove_listener", "crit")
     /\ ~Registered(_events, Top(t).event, Top(t).f)
     /\ stack'[t] # stack[t]) =>
        /\ _events' = _events
        /\ _lock' = "free"
        /\ Depth(t)' = Depth(t)
        /\ Top(t)'.pc = "done"
        /\ \/ Top(t)'.out = "raise" /\ Top(t)'.val = "KeyError"
           \/ Top(t)'.out = "return" /\ Top(t)'.val = None
C11_RemoveUnregistered == [][\A t \in Threads : C11_Step(t)]_vars

\* A remove_listener("x", "f") has ended in a KeyError while "x" has a
\* listener other than f, which is still there, and the lock is free: the
\* next operation can take it.
C11_Witness ==
    \E t \in Threads :
        /\ Busy(t) /\ Top(t).op = "remove_listener" /\ Raised(Top(t))
        /\ Top(t).val = "KeyError"
        /\ Top(t).event = "x" /\ Top(t).f = "f"
        /\ listeners("x") = <<"h">>
        /\ _lock = "free"

---------------------------------------------------------------------------
(* C12: a listener that fails makes the emit that called it fail with the  *)
(* same exception: emit and the once wrapper pass it on unchanged, the     *)
(* functions after it in the snapshot are not called by that emit, and the *)
(* thread does not hold the lock when the failure leaves emit.             *)
C12_Step(t) ==
    (/\ Depth(t) >= 2 /\ Raised(Top(t))
     /\ stack[t][Depth(t) - 1].op \in {"emit", "g"}
     /\ Len(stack'[t]) < Depth(t)) =>
        /\ stack'[t] = SetTop(Pop(stack[t]),
               Done(stack[t][Depth(t) - 1], "raise", Top(t).val))
        /\ _lock' # t
C12_Failed ==
    \A t \in Threads : \A j \in 1..Depth(t) :
        LET fr == stack[t][j]
        IN  (fr.op = "emit" /\ Raised(fr) /\ fr.funcs # <<>>) =>
                /\ fr.i < Len(fr.funcs)
                /\ ~fr.handled \/ fr.i > 0
                /\ \A m \in (fr.i + 2)..Len(fr.funcs) :
                       RunsOf(fr.log, fr.funcs[m].f) = {}
                /\ _lock # t
C12_ListenerFailurePropagates ==
    [][(\A t \in Threads : C12_Step(t)) /\ C12_Failed']_vars

\* An emit("x") whose snapshot is [f, h] has failed with the exception of f:
\* f was started, h was not, and the lock is free.
C12_Witness ==
    \E fr \in Emits :
        /\ Raised(fr) /\ fr.val = "ListenerError" /\ fr.event = "x"
        /\ fr.funcs = <<Plain("f"), Plain("h")>>
        /\ fr.i = 0 /\ fr.log = << <<"f", fr.args>> >>
        /\ _lock = "free"

---------------------------------------------------------------------------
(* C13: an instance of a class decorated with evented has an EventEmitter, *)
(* its own if its __init__ set one and a new one otherwise, that holds,    *)
(* per event and in the order of declaration, one closure bound to that    *)
(* instance for every Handler declared with cls.on between the evented     *)
(* call of its class and the evented call before, and nothing declared for *)
(* a class decorated at another time; the accumulator holds the Handlers   *)
(* declared since the last evented call, none right after one.             *)
C13_Bound(self, hs) == [j \in 1..Len(hs) |-> _bind(self, hs[j])]
C13_For(hs, event) == SelectSeq(hs, LAMBDA h : h.event = event)
C13_Evented ==
    /\ \A self \in 1..Len(objects) :
          LET o  == objects[self]
              em == o.event_emitter
          IN  o.wrapped =>
                /\ em.by = IF o.cls \in OwnInit THEN "og_init" ELSE "init"
                /\ DOMAIN em._events \subseteq ClsEvents
                /\ \A event \in ClsEvents :
                      /\ Keys(Get(em._events, event)) =
                             C13_Bound(self, C13_For(o.declared, event))
                      /\ \A k \in KeySet(Get(em._events, event)) :
                            /\ k.self = self
                            /\ \A c \in Classes \ {o.cls} :
                                  \A j \in 1..Len(hist.captured[c]) :
                                      hist.captured[c][j].n # k.n
    /\ _handlers = hist.since

\* A was decorated with its handler of "x", then B with its handler of "y";
\* the instance of A has a new emitter with A.m under "x" alone, the
\* instance of B its own emitter with B.m under "y" alone, and the
\* accumulator is empty.
C13_Witness ==
    /\ Len(objects) = 2 /\ _handlers = <<>>
    /\ inits["A"] = << <<Handler("x", "A.m", 1)>> >>
    /\ inits["B"] = << <<Handler("y", "B.m", 2)>> >>
    /\ objects[1].cls = "A" /\ objects[1].event_emitter.by = "init"
    /\ objects[1].event_emitter._events =
           Insert(EmptyRegistry, "x", _bind(1, Handler("x", "A.m", 1)),
                  Plain(_bind(1, Handler("x", "A.m", 1))))
    /\ objects[2].cls = "B" /\ objects[2].event_emitter.by = "og_init"
    /\ objects[2].event_emitter._events =
           Insert(EmptyRegistry, "y", _bind(2, Handler("y", "B.m", 2)),
                  Plain(_bind(2, Handler("y", "B.m", 2))))

---------------------------------------------------------------------------
(* C14, as claimed: an emit that returns has started the body of every     *)
(* listener of its snapshot, of those registered with on and of those      *)
(* registered with once, whatever was removed while it ran.                *)
C14_EverySnapshotListenerRuns ==
    \A fr \in Emits :
        Returned(fr) =>
            \A m \in 1..Len(fr.funcs) : RunsOf(fr.log, fr.funcs[m].f) # {}

(* C14, amended: an emit that returns has called every function of its     *)
(* snapshot; it has started the body of every listener registered with on, *)
(* also of those removed while it ran, and of a listener registered with   *)
(* once unless the wrapper found it no longer registered.                  *)
C14_SnapshotIsCalled ==
    \A fr \in Emits :
        /\ Returned(fr) =>
              /\ fr.i = Len(fr.funcs)
              /\ \A m \in 1..Len(fr.funcs) :
                    fr.funcs[m].kind = "listener" =>
                        Cardinality(RunsOf(fr.log, fr.funcs[m].f)) = 1
        /\ \A m \in 1..Len(fr.funcs) :
              (fr.funcs[m].kind = "listener" /\ m <= fr.i) =>
                  RunsOf(fr.log, fr.funcs[m].f) # {}

\* The body of f, registered with on, is running for an emit("x") while f is
\* no longer registered under "x": it was removed after the snapshot.
C14_Witness ==
    \E t \in Threads :
        /\ Depth(t) = 2 /\ Top(t).op = "body" /\ Top(t).pc = "run"
        /\ Top(t).f = "f"
        /\ stack[t][1].op = "emit" /\ stack[t][1].event = "x"
        /\ stack[t][1].funcs = <<Plain("f")>>
        /\ ~Registered(_events, "x", "f")

---------------------------------------------------------------------------
---------------------------------------------------------------------------
(* C16: the thread that holds the lock is inside a locked block of the     *)
(* emitter and calls nothing from there, so the lock is never held while a *)
(* listener body runs: not by emit, nor by a once wrapper. A listener that *)
(* calls on, once, remove_listener, remove_all_listeners or emit on the    *)
(* same emitter therefore gets the lock, and every call of the emitter,    *)
(* every emit among them, eventually ends when the listener bodies end.    *)
C16_LockOnlyInside ==
    \A t \in Threads :
        /\ _lock = t => Busy(t) /\ Top(t).pc = "crit" /\ Top(t).op # "body"
        /\ (Busy(t) /\ Top(t).op = "body") => _lock # t
C16_NoDeadlock ==
    [] C16_LockOnlyInside /\ \A t \in Threads : Busy(t) ~> ~Busy(t)

\* The body of f, called by the once wrapper g for an emit, has called
\* on, which holds the lock inside its locked block.
C16_Witness ==
    \E t \in Threads :
        /\ Depth(t) = 4 /\ _lock = t
        /\ stack[t][1].op = "emit" /\ stack[t][2].op = "g"
        /\ stack[t][3].op = "body" /\ stack[t][3].pc = "wait"
        /\ stack[t][4].op = "on" /\ stack[t][4].pc = "crit"

---------------------------------------------------------------------------
(* C17: the registry changes only in a step of the thread that holds the   *)
(* lock, taken inside its locked block, and emit copies its snapshot in    *)
(* such a step too; a thread is inside a locked block only while it holds  *)
(* the lock, so at most one thread is inside one at any time.              *)
C17_Inside(t) == Busy(t) /\ Top(t).pc = "crit"
C17_OneInside ==
    /\ \A t \in Threads : C17_Inside(t) => _lock = t
    /\ Cardinality({t \in Threads : C17_Inside(t)}) <= 1
C17_Step ==
    /\ _events' # _events =>
          \E t \in Threads :
              /\ _lock = t /\ C17_Inside(t)
              /\ Top(t).op \in {"on", "once", "g", "remove_listener",
                                "remove_all_listeners"}
              /\ stack'[t][Depth(t)].pc # "crit"
    /\ \A t \in Threads :
          (/\ Busy(t) /\ Top(t).op = "emit" /\ Top(t).pc \in {"lock", "crit"}
           /\ Len(stack'[t]) = Depth(t)
           /\ stack'[t][Depth(t)].pc \notin {"lock", "crit"}) =>
              _lock = t /\ C17_Inside(t)
C17_MutationsUnderLock == [][C17_Step /\ C17_OneInside']_vars

\* t1 is inside the locked block of a registration, holding the lock, while
\* t2 waits for the lock at the entry of its own locked block.
C17_Witness ==
    /\ _lock = "t1" /\ At("t1", "on", "crit")
    /\ Busy("t2") /\ Top("t2").pc = "lock"
    /\ Top("t2").op = "remove_all_listeners"

---------------------------------------------------------------------------
(* C18: a once wrapper removes its listener before it calls it.  From the  *)
(* step in which the wrapper calls f, registered under event, and until f  *)
(* is registered under event again, f is not in listeners(event), whether  *)
(* its body is running, has returned or has failed; an emit(event) that    *)
(* takes its snapshot in that time, from within the body of f or later,    *)
(* does not start the body of f.                                           *)
C18_Removed ==
    /\ \A p \in fired : ~Registered(_events, p[1], p[2])
    /\ \A fr \in Emits : \A f \in fr.fired :
          /\ RunsOf(fr.log, f) = {}
          /\ \A m \in 1..Len(fr.funcs) : fr.funcs[m].f # f

(* C18, as claimed: moreover such an emit returns False when it finds no   *)
(* listener, f having been the only one.                                   *)
C18_LaterEmitReturnsFalse ==
    /\ C18_Removed
    /\ \A fr \in Emits :
          (fr.pc = "done" /\ fr.fired # {} /\ fr.funcs = <<>>) =>
              Returned(fr) /\ fr.val = "False"

(* C18, amended: such an emit returns False when it finds no listener, and *)
(* when the event is "error" it raises instead, as every emit of "error"   *)
(* without a listener does.                                                *)
C18_LaterEmitUnheard ==
    /\ C18_Removed
    /\ \A fr \in Emits :
          (fr.pc = "done" /\ fr.fired # {} /\ fr.funcs = <<>>) =>
              IF fr.event = "error"
              THEN Raised(fr) /\ fr.val \in Exceptions \cup {"PyeeError"}
              ELSE Returned(fr) /\ fr.val = "False"

\* The body of f, called by its once wrapper for an emit("x"), has called
\* emit("x") again: that emit found no listener, did not run f and returns
\* False.
C18_Witness ==
    \E t \in Threads :
        /\ Depth(t) = 4
        /\ stack[t][1].op = "emit" /\ stack[t][1].event = "x"
        /\ stack[t][2].op = "g" /\ stack[t][2].f = "f"
        /\ stack[t][3].op = "body" /\ stack[t][3].f = "f"
        /\ stack[t][4].op = "emit" /\ stack[t][4].event = "x"
        /\ stack[t][4].fired = {"f"} /\ stack[t][4].funcs = <<>>
        /\ Returned(stack[t][4]) /\ stack[t][4].val = "False"
        /\ stack[t][4].log = <<>>
        /\ <<"x", "f">> \in fired /\ listeners("x") = <<>>

---------------------------------------------------------------------------
(* C19: a listener registered with on stays registered until              *)
(* remove_listener or remove_all_listeners removes it: no step of an emit, *)
(* and so no step of a once wrapper that an emit calls, removes an entry   *)
(* that on has inserted.                                                   *)
C19_Step(t) ==
    (At(t, "g", "crit") /\ Len(stack'[t]) >= Depth(t)
        /\ stack'[t][Depth(t)].pc # "crit") =>
        \A event \in DOMAIN _events :
            \A m \in 1..Len(_events[event]) :
                _events[event][m].v.kind = "listener" =>
                    Registered(_events', event, _events[event][m].k)
C19_OnStaysRegistered == [][\A t \in Threads : C19_Step(t)]_vars

---------------------------------------------------------------------------
(* C20: when the emit of new_listener that on(event, f) or once(event, f)  *)
(* starts with fails, the registration call fails with the same exception  *)
(* in the same step, which leaves the registry as it is, and f is not      *)
(* registered under event unless it already was when the call began or     *)
(* another registration has inserted it meanwhile.                         *)
C20_Step(t) ==
    (/\ Depth(t) >= 2 /\ Raised(Top(t))
     /\ stack[t][Depth(t) - 1].op \in {"on", "once"}
     /\ Len(stack'[t]) < Depth(t)) =>
        LET call == stack[t][Depth(t) - 1]
        IN  /\ stack'[t] = SetTop(Pop(stack[t]),
                   Done(call, "raise", Top(t).val))
            /\ _events' = _events
            /\ _lock' # t
            /\ ~call.dup => ~Registered(_events', call.event, call.f)
C20_FailedHandlerNoRegistration == [][\A t \in Threads : C20_Step(t)]_vars

\* on("x", "f") has failed with the exception of the new_listener handler
\* h, whose body was started with ("x", "f"); f is not registered, and h is
\* still the listener of new_listener.
C20_Witness ==
    \E t \in Threads :
        /\ Depth(t) = 1 /\ Top(t).op = "on" /\ Raised(Top(t))
        /\ Top(t).val = "ListenerError"
        /\ Top(t).event = "x" /\ Top(t).f = "f"
        /\ ~Registered(_events, "x", "f")
        /\ listeners("new_listener") = <<"h">>
====
